---- MODULE Spec2Model ----
(***************************************************************************)
(* Model of gedgraph's relationship graph engine: the family graph as the  *)
(* GEDCOM parser holds it, the accessors of GedcomParser, the breadth-     *)
(* first search of PathFinder.find_relationship_paths, the ranking of      *)
(* PathFinder.get_shortest_paths with RelationshipPath.sorting_key, the    *)
(* ancestor walk of PathFinder.find_pedigree, the generation maps and      *)
(* chart statements of DotGenerator.generate_pedigree, generate_hourglass  *)
(* and generate_bowtie, and the co-parents and the label of                *)
(* DotGenerator.generate_relationship.                                     *)
(***************************************************************************)
EXTENDS Integers, Sequences, FiniteSets, TLC

\* ---------------------------------------------------------------- bounds
NumInd == 3        \* individuals of the stores tried exhaustively
NumFam == 1        \* family records of the stores tried exhaustively
MaxDepth == 3      \* largest max_depth / generations argument tried

Ind == 1..NumInd
Fam == 1..NumFam
None == 0          \* Python None: an absent tag or an id that does not resolve
Unset == -1        \* min_length is None / key absent from the visited dict

\* ------------------------------------------------------------ enum values
PARENT == "parent"
CHILD == "child"
FULL == 1
HALF == 2

VARIABLES
    indi,        \* GedcomParser._individuals: id -> [famc, fams, sex]
    fam,         \* GedcomParser._families: id -> [husb, wife, chil, marr]
    pc,          \* position of the running query
    start_id,    \* argument of the query
    end_id,      \* argument of the query
    max_depth,   \* argument of find_relationship_paths / get_shortest_paths
    generations, \* argument of find_pedigree
    queue,       \* deque of the running traversal
    visited,     \* visited dict (path finder) / visited set (pedigree)
    min_length,  \* find_relationship_paths.min_length
    paths,       \* find_relationship_paths.paths, then its return value
    shortest,    \* return value of get_shortest_paths
    pedigree,    \* find_pedigree.pedigree, then its return value
    placed,      \* history: the gen each pedigree entry was dequeued with
    measured,    \* RelationshipPath.steps of the path being measured
    distance,    \* return value of generation_distance()
    compared,    \* RelationshipPath.steps of the path measured is ranked against
    keys,        \* return values of sorting_key() of the two paths
    builder,     \* the DotGenerator method that was called
    variant,     \* argument of generate_hourglass / generate_bowtie
    generations_map, \* the method's generations_map: offset -> individuals
    lines,       \* the method's lines, then the statements of its return value
    raised,      \* the exception the method raised, NoError if it returned
    walks,       \* history: the walks the method has run
    spouse_map,  \* generate_relationship.spouse_map: id -> (spouse, is_married)
    description  \* return value of _describe_relationship()

vars == <<indi, fam, pc, start_id, end_id, max_depth, generations, queue, visited,
          min_length, paths, shortest, pedigree, placed, measured, distance,
          compared, keys,
          builder, variant, generations_map, lines, raised, walks,
          spouse_map, description>>

store == <<indi, fam>>
args == <<start_id, end_id, max_depth, generations>>
walk == <<pedigree, placed>>
measure == <<measured, distance, compared, keys>>
chart == <<builder, variant, generations_map, lines, raised, walks,
           spouse_map, description>>

\* ------------------------------------------------------- GedcomParser
\* ids are kept in their canonical form @..@: individual i stands for @Ii@,
\* family f for @Ff@, and 0 for an id that names no record
get_individual(xref_id) ==
    IF xref_id \in DOMAIN indi THEN xref_id ELSE None

_get_family(xref_id) ==
    IF xref_id \in DOMAIN fam THEN xref_id ELSE None

\* (father, mother) through the individual's FAMC family; either may be None
get_parents(individual) ==
    LET family == _get_family(indi[individual].famc)
    IN  IF family = None
        THEN <<None, None>>
        ELSE <<get_individual(fam[family].husb), get_individual(fam[family].wife)>>

get_families_as_spouse(individual) ==
    SelectSeq(indi[individual].fams, LAMBDA f : _get_family(f) # None)

RECURSIVE ConcatChildren(_)
ConcatChildren(families) ==
    IF families = <<>>
    THEN <<>>
    ELSE SelectSeq(fam[Head(families)].chil, LAMBDA c : get_individual(c) # None)
         \o ConcatChildren(Tail(families))

get_children(individual) ==
    ConcatChildren(get_families_as_spouse(individual))

get_sex(individual) ==
    indi[individual].sex

\* the loop of _is_couple_married over the families of ind1: the first family
\* whose HUSB and WIFE are the two decides, by its MARR line
RECURSIVE CoupleMarried(_, _, _)
CoupleMarried(families, ind1, ind2) ==
    IF families = <<>>
    THEN FALSE
    ELSE LET family == fam[Head(families)]
         IN  IF /\ family.husb # None
                /\ family.wife # None
                /\ \/ family.husb = ind1 /\ family.wife = ind2
                   \/ family.husb = ind2 /\ family.wife = ind1
             THEN family.marr
             ELSE CoupleMarried(Tail(families), ind1, ind2)

_is_couple_married(ind1, ind2) ==
    CoupleMarried(get_families_as_spouse(ind1), ind1, ind2)

\* (spouse, is_married): the other parent of child when individual is one of
\* its two parents, (None, False) otherwise
get_spouse_for_child(individual, child) ==
    LET cp == get_parents(child)
    IN  IF cp[1] = None \/ cp[2] = None
        THEN <<None, FALSE>>
        ELSE LET spouse == IF individual = cp[1] THEN cp[2]
                           ELSE IF individual = cp[2] THEN cp[1]
                           ELSE None
             IN  IF spouse = None
                 THEN <<None, FALSE>>
                 ELSE <<spouse, _is_couple_married(individual, spouse)>>

\* ------------------------------------------------------- RelationshipPath
PathStep(id, rel, blood, male) ==
    [individual_id |-> id, relation_type |-> rel, blood_type |-> blood, via_male |-> male]

length(steps) ==
    Len(steps)

\* generation_distance with the two signs exchanged
RECURSIVE generation_distance_flipped(_)
generation_distance_flipped(steps) ==
    IF steps = <<>>
    THEN 0
    ELSE (IF Head(steps).relation_type = CHILD THEN -1
          ELSE IF Head(steps).relation_type = PARENT THEN 1 ELSE 0)
         + generation_distance_flipped(Tail(steps))

RECURSIVE generation_distance(_)
generation_distance(steps) ==
    IF steps = <<>>
    THEN 0
    ELSE (IF Head(steps).relation_type = CHILD THEN 1
          ELSE IF Head(steps).relation_type = PARENT THEN -1 ELSE 0)
         + generation_distance(Tail(steps))

RECURSIVE blood_score(_)
blood_score(steps) ==
    IF steps = <<>> THEN 0 ELSE Head(steps).blood_type + blood_score(Tail(steps))

\* male_score counting the steps that are via_male
RECURSIVE male_score_countsMale(_)
male_score_countsMale(steps) ==
    IF steps = <<>> THEN 0
    ELSE (IF Head(steps).via_male THEN 1 ELSE 0) + male_score_countsMale(Tail(steps))

RECURSIVE male_score(_)
male_score(steps) ==
    IF steps = <<>> THEN 0
    ELSE (IF Head(steps).via_male THEN 0 ELSE 1) + male_score(Tail(steps))

\* sorting_key with the blood score ahead of the length
sorting_key_bloodFirst(steps) ==
    <<blood_score(steps), length(steps), male_score(steps)>>

sorting_key(steps) ==
    <<length(steps), blood_score(steps), male_score(steps)>>

\* Python's tuple comparison of two sorting keys
KeyLess(a, b) ==
    \/ a[1] < b[1]
    \/ a[1] = b[1] /\ a[2] < b[2]
    \/ a[1] = b[1] /\ a[2] = b[2] /\ a[3] < b[3]

\* ------------------------------------------------------- PathFinder helpers
_determine_blood_type(parent, child) ==
    LET parent_families == get_families_as_spouse(parent)
        cp == get_parents(child)
    IN  IF cp[1] = None \/ cp[2] = None
        THEN HALF
        ELSE IF \E k \in 1..Len(parent_families) :
                    LET family == fam[parent_families[k]]
                    IN  /\ family.husb # None
                        /\ family.wife # None
                        /\ cp[1] = family.husb
                        /\ cp[2] = family.wife
             THEN FULL
             ELSE HALF

\* ChildSteps tagging the step to a child as a step to a parent
ChildSteps_asParent(individual, children) ==
    [k \in 1..Len(children) |->
        PathStep(children[k], PARENT,
                 _determine_blood_type(individual, children[k]),
                 get_sex(individual) = "M")]

\* ChildSteps taking via_male from the sex of the child stepped to
ChildSteps_childSex(individual, children) ==
    [k \in 1..Len(children) |->
        PathStep(children[k], CHILD,
                 _determine_blood_type(individual, children[k]),
                 get_sex(children[k]) = "M")]

ChildSteps(individual, children) ==
    [k \in 1..Len(children) |->
        PathStep(children[k], CHILD,
                 _determine_blood_type(individual, children[k]),
                 get_sex(individual) = "M")]

\* _get_neighbors listing the mother ahead of the father
_get_neighbors_motherFirst(individual) ==
    LET fm == get_parents(individual)
    IN  (IF fm[2] # None THEN <<PathStep(fm[2], PARENT, FULL, FALSE)>> ELSE <<>>)
        \o (IF fm[1] # None THEN <<PathStep(fm[1], PARENT, FULL, TRUE)>> ELSE <<>>)
        \o ChildSteps(individual, get_children(individual))

\* _get_neighbors leaving the mother out
_get_neighbors_noMother(individual) ==
    LET fm == get_parents(individual)
    IN  (IF fm[1] # None THEN <<PathStep(fm[1], PARENT, FULL, TRUE)>> ELSE <<>>)
        \o ChildSteps(individual, get_children(individual))

\* the steps to father, mother, then every child, in that order
_get_neighbors(individual) ==
    LET fm == get_parents(individual)
    IN  (IF fm[1] # None THEN <<PathStep(fm[1], PARENT, FULL, TRUE)>> ELSE <<>>)
        \o (IF fm[2] # None THEN <<PathStep(fm[2], PARENT, FULL, FALSE)>> ELSE <<>>)
        \o ChildSteps(individual, get_children(individual))

\* ------------------------------------------- find_relationship_paths
RelationshipPath(steps, s, e) ==
    [steps |-> steps, start_id |-> s, end_id |-> e]

\* ScanNeighbors enqueuing every neighbour, visited or not
RECURSIVE ScanNeighbors_everyNeighbor(_, _, _)
ScanNeighbors_everyNeighbor(neighbors, path, st) ==
    IF neighbors = <<>>
    THEN st
    ELSE LET step == Head(neighbors)
             neighbor == step.individual_id
             current_depth == Len(path)
             st1 ==
                IF neighbor = get_individual(end_id)
                THEN [st EXCEPT
                        !.paths = Append(@, RelationshipPath(path \o <<step>>, start_id, end_id)),
                        !.min_length = IF @ = Unset THEN Len(path) + 1 ELSE @]
                ELSE [st EXCEPT
                        !.visited[neighbor] = current_depth + 1,
                        !.queue = Append(@, [node |-> neighbor, path |-> path \o <<step>>])]
         IN  ScanNeighbors_everyNeighbor(Tail(neighbors), path, st1)

\* ScanNeighbors enqueuing a node again only at a strictly smaller depth
RECURSIVE ScanNeighbors_firstOnly(_, _, _)
ScanNeighbors_firstOnly(neighbors, path, st) ==
    IF neighbors = <<>>
    THEN st
    ELSE LET step == Head(neighbors)
             neighbor == step.individual_id
             current_depth == Len(path)
             st1 ==
                IF neighbor = get_individual(end_id)
                THEN [st EXCEPT
                        !.paths = Append(@, RelationshipPath(path \o <<step>>, start_id, end_id)),
                        !.min_length = IF @ = Unset THEN Len(path) + 1 ELSE @]
                ELSE IF \/ st.visited[neighbor] = Unset
                        \/ st.visited[neighbor] > current_depth + 1
                     THEN [st EXCEPT
                             !.visited[neighbor] = current_depth + 1,
                             !.queue = Append(@, [node |-> neighbor, path |-> path \o <<step>>])]
                     ELSE st
         IN  ScanNeighbors_firstOnly(Tail(neighbors), path, st1)

\* ScanNeighbors without the continue of line 167: end is recorded and
\* enqueued like any other neighbour once its path is appended
RECURSIVE ScanNeighbors_throughEnd(_, _, _)
ScanNeighbors_throughEnd(neighbors, path, st) ==
    IF neighbors = <<>>
    THEN st
    ELSE LET step == Head(neighbors)
             neighbor == step.individual_id
             current_depth == Len(path)
             found ==
                IF neighbor = get_individual(end_id)
                THEN [st EXCEPT
                        !.paths = Append(@, RelationshipPath(path \o <<step>>, start_id, end_id)),
                        !.min_length = IF @ = Unset THEN Len(path) + 1 ELSE @]
                ELSE st
             st1 ==
                IF \/ found.visited[neighbor] = Unset
                   \/ found.visited[neighbor] >= current_depth + 1
                THEN [found EXCEPT
                        !.visited[neighbor] = current_depth + 1,
                        !.queue = Append(@, [node |-> neighbor, path |-> path \o <<step>>])]
                ELSE found
         IN  ScanNeighbors_throughEnd(Tail(neighbors), path, st1)

\* ScanNeighbors putting a path it finds at the front of paths
RECURSIVE ScanNeighbors_newestFirst(_, _, _)
ScanNeighbors_newestFirst(neighbors, path, st) ==
    IF neighbors = <<>>
    THEN st
    ELSE LET step == Head(neighbors)
             neighbor == step.individual_id
             current_depth == Len(path)
             st1 ==
                IF neighbor = get_individual(end_id)
                THEN [st EXCEPT
                        !.paths = <<RelationshipPath(path \o <<step>>, start_id, end_id)>> \o @,
                        !.min_length = IF @ = Unset THEN Len(path) + 1 ELSE @]
                ELSE IF \/ st.visited[neighbor] = Unset
                        \/ st.visited[neighbor] >= current_depth + 1
                     THEN [st EXCEPT
                             !.visited[neighbor] = current_depth + 1,
                             !.queue = Append(@, [node |-> neighbor, path |-> path \o <<step>>])]
                     ELSE st
         IN  ScanNeighbors_newestFirst(Tail(neighbors), path, st1)

\* one pass of the "for neighbor, step in neighbors" loop over the rest of
\* the neighbour list; st carries paths, min_length, visited and queue
RECURSIVE ScanNeighbors(_, _, _)
ScanNeighbors(neighbors, path, st) ==
    IF neighbors = <<>>
    THEN st
    ELSE LET step == Head(neighbors)
             neighbor == step.individual_id
             current_depth == Len(path)
             st1 ==
                IF neighbor = get_individual(end_id)
                THEN [st EXCEPT
                        !.paths = Append(@, RelationshipPath(path \o <<step>>, start_id, end_id)),
                        !.min_length = IF @ = Unset THEN Len(path) + 1 ELSE @]
                ELSE IF \/ st.visited[neighbor] = Unset
                        \/ st.visited[neighbor] >= current_depth + 1
                     THEN [st EXCEPT
                             !.visited[neighbor] = current_depth + 1,
                             !.queue = Append(@, [node |-> neighbor, path |-> path \o <<step>>])]
                     ELSE st
         IN  ScanNeighbors(Tail(neighbors), path, st1)

\* FindStart without the early return for start == end
FindStart_noSelfCheck ==
    /\ pc = "call"
    /\ LET start == get_individual(start_id)
           end == get_individual(end_id)
       IN  IF start = None \/ end = None
           THEN /\ paths' = <<>>
                /\ pc' = "returned"
                /\ UNCHANGED <<queue, visited>>
           ELSE /\ paths' = <<>>
                /\ queue' = <<[node |-> start, path |-> <<>>]>>
                /\ visited' = [i \in DOMAIN indi |-> IF i = start THEN 0 ELSE Unset]
                /\ pc' = "loop"
    /\ min_length' = Unset
    /\ UNCHANGED <<store, args, chart, measure, shortest, walk>>

\* FindStart comparing the two ids before it resolves them
FindStart_compareIdsFirst ==
    /\ pc = "call"
    /\ LET start == get_individual(start_id)
           end == get_individual(end_id)
       IN  IF start_id = end_id
           THEN /\ paths' = <<RelationshipPath(<<>>, start_id, end_id)>>
                /\ pc' = "returned"
                /\ UNCHANGED <<queue, visited>>
           ELSE IF start = None \/ end = None
           THEN /\ paths' = <<>>
                /\ pc' = "returned"
                /\ UNCHANGED <<queue, visited>>
           ELSE /\ paths' = <<>>
                /\ queue' = <<[node |-> start, path |-> <<>>]>>
                /\ visited' = [i \in DOMAIN indi |-> IF i = start THEN 0 ELSE Unset]
                /\ pc' = "loop"
    /\ min_length' = Unset
    /\ UNCHANGED <<store, args, chart, measure, shortest, walk>>

\* lines 133-145: resolve both ids, the two early returns, the first queue
FindStart ==
    /\ pc = "call"
    /\ LET start == get_individual(start_id)
           end == get_individual(end_id)
       IN  IF start = None \/ end = None
           THEN /\ paths' = <<>>
                /\ pc' = "returned"
                /\ UNCHANGED <<queue, visited>>
           ELSE IF start = end
           THEN /\ paths' = <<RelationshipPath(<<>>, start_id, end_id)>>
                /\ pc' = "returned"
                /\ UNCHANGED <<queue, visited>>
           ELSE /\ paths' = <<>>
                /\ queue' = <<[node |-> start, path |-> <<>>]>>
                /\ visited' = [i \in DOMAIN indi |-> IF i = start THEN 0 ELSE Unset]
                /\ pc' = "loop"
    /\ min_length' = Unset
    /\ UNCHANGED <<store, args, chart, measure, shortest, walk>>

\* FindStep dropping an entry only when it is deeper than max_depth
FindStep_lateCutoff ==
    /\ pc = "loop"
    /\ queue # <<>>
    /\ LET current == Head(queue).node
           path == Head(queue).path
           current_depth == Len(path)
           rest == Tail(queue)
       IN  IF min_length # Unset /\ min_length # 0 /\ current_depth > min_length
           THEN /\ queue' = rest
                /\ UNCHANGED <<paths, min_length, visited>>
           ELSE IF current_depth > max_depth
           THEN /\ queue' = rest
                /\ UNCHANGED <<paths, min_length, visited>>
           ELSE LET st == ScanNeighbors(_get_neighbors(current), path,
                              [paths |-> paths, min_length |-> min_length,
                               visited |-> visited, queue |-> rest])
                IN  /\ paths' = st.paths
                    /\ min_length' = st.min_length
                    /\ visited' = st.visited
                    /\ queue' = st.queue
    /\ UNCHANGED <<store, args, chart, measure, pc, shortest, walk>>

\* lines 147-174: one iteration of "while queue"
FindStep ==
    /\ pc = "loop"
    /\ queue # <<>>
    /\ LET current == Head(queue).node
           path == Head(queue).path
           current_depth == Len(path)
           rest == Tail(queue)
       IN  IF min_length # Unset /\ min_length # 0 /\ current_depth > min_length
           THEN /\ queue' = rest
                /\ UNCHANGED <<paths, min_length, visited>>
           ELSE IF current_depth >= max_depth
           THEN /\ queue' = rest
                /\ UNCHANGED <<paths, min_length, visited>>
           ELSE LET st == ScanNeighbors(_get_neighbors(current), path,
                              [paths |-> paths, min_length |-> min_length,
                               visited |-> visited, queue |-> rest])
                IN  /\ paths' = st.paths
                    /\ min_length' = st.min_length
                    /\ visited' = st.visited
                    /\ queue' = st.queue
    /\ UNCHANGED <<store, args, chart, measure, pc, shortest, walk>>

\* line 176: the queue is empty, paths is returned
FindReturn ==
    /\ pc = "loop"
    /\ queue = <<>>
    /\ pc' = "returned"
    /\ UNCHANGED <<store, args, chart, measure, queue, visited,
                   min_length, paths, shortest, walk>>

\* ------------------------------------------------- get_shortest_paths
\* list.sort(key=...) is stable: p goes before the first entry of a larger key
InsertByKey(sorted, p) ==
    LET later == {k \in 1..Len(sorted) : KeyLess(sorting_key(p.steps), sorting_key(sorted[k].steps))}
        pos == IF later = {} THEN Len(sorted) + 1
               ELSE CHOOSE k \in later : \A j \in later : k <= j
    IN  SubSeq(sorted, 1, pos - 1) \o <<p>> \o SubSeq(sorted, pos, Len(sorted))

RECURSIVE SortByKey(_)
SortByKey(all_paths) ==
    IF all_paths = <<>>
    THEN <<>>
    ELSE InsertByKey(SortByKey(SubSeq(all_paths, 1, Len(all_paths) - 1)),
                     all_paths[Len(all_paths)])

\* get_shortest_paths keeping every path as long as the first of the sorted list
get_shortest_paths_byLength(all_paths) ==
    IF all_paths = <<>>
    THEN <<>>
    ELSE LET sorted == SortByKey(all_paths)
             shortest_length == length(sorted[1].steps)
         IN  SelectSeq(sorted, LAMBDA p : length(p.steps) = shortest_length)

get_shortest_paths(all_paths) ==
    IF all_paths = <<>>
    THEN <<>>
    ELSE LET sorted == SortByKey(all_paths)
             shortest_length == sorting_key(sorted[1].steps)
         IN  SelectSeq(sorted, LAMBDA p : sorting_key(p.steps) = shortest_length)

\* lines 290-301, after the call of find_relationship_paths has returned
Rank ==
    /\ pc = "returned"
    /\ shortest' = get_shortest_paths(paths)
    /\ pc' = "ranked"
    /\ UNCHANGED <<store, args, chart, measure, queue, visited,
                   min_length, paths, walk>>

\* ------------------------------------------------------- find_pedigree
\* lines 98-104
PedStart ==
    /\ pc = "pcall"
    /\ LET individual == get_individual(start_id)
       IN  IF individual = None
           THEN /\ pc' = "pdone"
                /\ UNCHANGED <<queue, visited>>
           ELSE /\ queue' = <<[node |-> individual, gen |-> 0]>>
                /\ visited' = {individual}
                /\ pc' = "ploop"
    /\ pedigree' = <<>>
    /\ placed' = <<>>
    /\ UNCHANGED <<store, args, chart, measure, min_length, paths, shortest>>

\* ScanParents without the visited test
RECURSIVE ScanParents_noVisited(_, _, _)
ScanParents_noVisited(parents, gen, st) ==
    IF parents = <<>>
    THEN st
    ELSE LET parent == Head(parents)
             st1 == IF parent # None
                    THEN [visited |-> st.visited \cup {parent},
                          queue |-> Append(st.queue, [node |-> parent, gen |-> gen + 1])]
                    ELSE st
         IN  ScanParents_noVisited(Tail(parents), gen, st1)

\* the "for parent in [father, mother]" loop of lines 112-115
RECURSIVE ScanParents(_, _, _)
ScanParents(parents, gen, st) ==
    IF parents = <<>>
    THEN st
    ELSE LET parent == Head(parents)
             st1 == IF parent # None /\ parent \notin st.visited
                    THEN [visited |-> st.visited \cup {parent},
                          queue |-> Append(st.queue, [node |-> parent, gen |-> gen + 1])]
                    ELSE st
         IN  ScanParents(Tail(parents), gen, st1)

\* PedStep expanding the entries of generation == generations as well
PedStep_lateStop ==
    /\ pc = "ploop"
    /\ queue # <<>>
    /\ LET current == Head(queue).node
           gen == Head(queue).gen
           rest == Tail(queue)
           st == IF gen <= generations
                 THEN ScanParents(get_parents(current), gen,
                                  [visited |-> visited, queue |-> rest])
                 ELSE [visited |-> visited, queue |-> rest]
       IN  /\ pedigree' = Append(pedigree, current)
           /\ placed' = Append(placed, gen)
           /\ visited' = st.visited
           /\ queue' = st.queue
    /\ UNCHANGED <<store, args, chart, measure, pc, min_length, paths, shortest>>

\* lines 106-115: one iteration of "while queue"
PedStep ==
    /\ pc = "ploop"
    /\ queue # <<>>
    /\ LET current == Head(queue).node
           gen == Head(queue).gen
           rest == Tail(queue)
           st == IF gen < generations
                 THEN ScanParents(get_parents(current), gen,
                                  [visited |-> visited, queue |-> rest])
                 ELSE [visited |-> visited, queue |-> rest]
       IN  /\ pedigree' = Append(pedigree, current)
           /\ placed' = Append(placed, gen)
           /\ visited' = st.visited
           /\ queue' = st.queue
    /\ UNCHANGED <<store, args, chart, measure, pc, min_length, paths, shortest>>

\* line 117
PedReturn ==
    /\ pc = "ploop"
    /\ queue = <<>>
    /\ pc' = "pdone"
    /\ UNCHANGED <<store, args, chart, measure, queue, visited,
                   min_length, paths, shortest, walk>>

\* ------------------------------------------------------- generation walks
\* the "for neighbour in ..." loop of a walk: every neighbour not yet visited
\* is marked and queued one generation further
RECURSIVE ScanWalk(_, _, _)
ScanWalk(neighbours, gen, st) ==
    IF neighbours = <<>>
    THEN st
    ELSE LET n == Head(neighbours)
             st1 == IF n # None /\ n \notin st.visited
                    THEN [visited |-> st.visited \cup {n},
                          queue |-> Append(st.queue, [ind |-> n, gen |-> gen + 1])]
                    ELSE st
         IN  ScanWalk(Tail(neighbours), gen, st1)

\* the "while queue" loop of a walk, up = TRUE towards the parents and
\* up = FALSE towards the children; the pairs (individual, generation) come out
\* in the order they are dequeued
RECURSIVE WalkLoop(_, _, _, _, _)
WalkLoop(q, seen, out, max_generations, up) ==
    IF q = <<>>
    THEN out
    ELSE LET current == Head(q)
             neighbours == IF up THEN get_parents(current.ind)
                           ELSE get_children(current.ind)
             st == IF current.gen < max_generations
                   THEN ScanWalk(neighbours, current.gen,
                                 [visited |-> seen, queue |-> Tail(q)])
                   ELSE [visited |-> seen, queue |-> Tail(q)]
         IN  WalkLoop(st.queue, st.visited, Append(out, current), max_generations, up)

\* the ancestors of the individual with the generation each was found at,
\* the individual first at generation 0; nothing for an id that does not resolve
find_pedigree_with_generations(individual_id, max_generations) ==
    LET individual == get_individual(individual_id)
    IN  IF individual = None
        THEN <<>>
        ELSE WalkLoop(<<[ind |-> individual, gen |-> 0]>>, {individual}, <<>>,
                      max_generations, TRUE)

\* the same walk towards the children
find_descendants(individual_id, max_generations) ==
    LET individual == get_individual(individual_id)
    IN  IF individual = None
        THEN <<>>
        ELSE WalkLoop(<<[ind |-> individual, gen |-> 0]>>, {individual}, <<>>,
                      max_generations, FALSE)

\* the history entry of one walk that was run
WalkRun(fn, individual_id, max_generations) ==
    [fn |-> fn, individual_id |-> individual_id, max_generations |-> max_generations]

\* ------------------------------------------------------- DotGenerator
NoError ==
    [type |-> "none", text |-> "", individual_id |-> None, variant |-> ""]

\* ValueError(f"Individual {individual_id} not found")
ValueError_not_found(individual_id) ==
    [type |-> "ValueError", text |-> "Individual not found",
     individual_id |-> individual_id, variant |-> ""]

\* ValueError(f"Unknown variant: {variant}")
ValueError_unknown_variant(v) ==
    [type |-> "ValueError", text |-> "Unknown variant",
     individual_id |-> None, variant |-> v]

\* "if gen not in generations_map: generations_map[gen] = []" and then
\* "generations_map[gen].append(ind)"
AppendAt(map, gen, ind) ==
    IF gen \in DOMAIN map
    THEN [map EXCEPT ![gen] = Append(@, ind)]
    ELSE map @@ (gen :> <<ind>>)

\* "for ind, gen in pairs": every pair is appended at its generation
RECURSIVE PlaceAll(_, _)
PlaceAll(map, pairs) ==
    IF pairs = <<>>
    THEN map
    ELSE PlaceAll(AppendAt(map, Head(pairs).gen, Head(pairs).ind), Tail(pairs))

\* the pairs with the generation adj_gen = sign * (gen + shift)
Adjusted(pairs, sign, shift) ==
    [k \in 1..Len(pairs) |-> [ind |-> pairs[k].ind, gen |-> sign * (pairs[k].gen + shift)]]

\* sorted(generations_map.keys()), and the same with reverse=True
RECURSIVE Sorted(_)
Sorted(gens) ==
    IF gens = {}
    THEN <<>>
    ELSE LET least == CHOOSE k \in gens : \A j \in gens : k <= j
         IN  <<least>> \o Sorted(gens \ {least})

Reversed(seq) ==
    [k \in 1..Len(seq) |-> seq[Len(seq) + 1 - k]]

\* the node statements of the generations in the order gens, each generation
\* followed by its rank=same statement; the root's node is the one coloured
\* differently
RECURSIVE NodeLines(_, _)
NodeLines(map, gens) ==
    IF gens = <<>>
    THEN <<>>
    ELSE LET gen_num == Head(gens)
             individuals == map[gen_num]
             nodes == [k \in 1..Len(individuals) |->
                          [kind |-> "node", ids |-> <<individuals[k]>>,
                           root |-> (gen_num = 0)]]
             ranksame == IF individuals # <<>>
                         THEN <<[kind |-> "rank", ids |-> individuals, root |-> FALSE]>>
                         ELSE <<>>
         IN  nodes \o ranksame \o NodeLines(map, Tail(gens))

\* visited_individuals once every node statement is written
VisitedIndividuals(map) ==
    UNION {{map[g][k] : k \in 1..Len(map[g])} : g \in DOMAIN map}

EdgeLine(from, to) ==
    [kind |-> "edge", ids |-> <<from, to>>, root |-> FALSE]

\* the edges father -> ind and mother -> ind of the individuals listed, for
\* the parents that have a node
RECURSIVE ParentEdges(_, _)
ParentEdges(individuals, visited_individuals) ==
    IF individuals = <<>>
    THEN <<>>
    ELSE LET ind == Head(individuals)
             fm == get_parents(ind)
         IN  (IF fm[1] # None /\ fm[1] \in visited_individuals
              THEN <<EdgeLine(fm[1], ind)>> ELSE <<>>)
             \o (IF fm[2] # None /\ fm[2] \in visited_individuals
                 THEN <<EdgeLine(fm[2], ind)>> ELSE <<>>)
             \o ParentEdges(Tail(individuals), visited_individuals)

\* "for gen_num in sorted(generations_map.keys())" of the edge part; the
\* pedigree chart passes over the generations that are not above 0
RECURSIVE EdgeLines(_, _, _)
EdgeLines(map, gens, above_only) ==
    IF gens = <<>>
    THEN <<>>
    ELSE (IF above_only /\ ~(Head(gens) > 0)
          THEN <<>>
          ELSE ParentEdges(map[Head(gens)], VisitedIndividuals(map)))
         \o EdgeLines(map, Tail(gens), above_only)

\* the statements of a chart: the opening "digraph <name> {", the nodes, the
\* edges and the closing "}" (comment and blank lines are left out)
ChartLines(name, map, gens, above_only) ==
    <<[kind |-> "digraph", ids |-> <<>>, root |-> FALSE]>>
    \o NodeLines(map, gens)
    \o EdgeLines(map, Sorted(DOMAIN map), above_only)
    \o <<[kind |-> "end", ids |-> <<>>, root |-> FALSE]>>

\* a method that raised: nothing is returned
Raise(name, error) ==
    /\ builder' = name
    /\ raised' = error
    /\ generations_map' = <<>>
    /\ lines' = <<>>
    /\ walks' = <<>>
    /\ spouse_map' = <<>>
    /\ description' = ""

\* a method that returned the chart of the map, having run the walks
Return(name, map, gens, above_only, walks_run) ==
    /\ builder' = name
    /\ raised' = NoError
    /\ generations_map' = map
    /\ lines' = ChartLines(name, map, gens, above_only)
    /\ walks' = walks_run
    /\ spouse_map' = <<>>
    /\ description' = ""

\* generate_pedigree without the test of lines 32-33
generate_pedigree_noCheck ==
    /\ pc = "ccall"
    /\ pc' = "cdone"
    /\ LET pedigree_list == find_pedigree_with_generations(start_id, generations)
           map == PlaceAll(<<>>, pedigree_list)
       IN  Return("Pedigree", map, Reversed(Sorted(DOMAIN map)), TRUE,
                  <<WalkRun("find_pedigree_with_generations", start_id, generations)>>)
    /\ UNCHANGED <<store, args, variant, measure, queue, visited, min_length, paths,
                   shortest, walk>>

\* generate_pedigree(start_id, generations)
generate_pedigree ==
    /\ pc = "ccall"
    /\ pc' = "cdone"
    /\ LET individual == get_individual(start_id)
       IN  IF individual = None
           THEN Raise("Pedigree", ValueError_not_found(start_id))
           ELSE LET pedigree_list == find_pedigree_with_generations(start_id, generations)
                    map == PlaceAll(<<>>, pedigree_list)
                IN  Return("Pedigree", map, Reversed(Sorted(DOMAIN map)), TRUE,
                           <<WalkRun("find_pedigree_with_generations", start_id, generations)>>)
    /\ UNCHANGED <<store, args, variant, measure, queue, visited, min_length, paths,
                   shortest, walk>>

\* ancestor_split placing the mother's line on the father's side
ancestor_split_sameSide(individual, father_sign) ==
    LET fm == get_parents(individual)
        root_only == (0 :> <<individual>>)
        paternal == IF fm[1] # None
                    THEN PlaceAll(root_only,
                                  Adjusted(find_pedigree_with_generations(fm[1], generations - 1),
                                           father_sign, 1))
                    ELSE root_only
        maternal == IF fm[2] # None
                    THEN PlaceAll(paternal,
                                  Adjusted(find_pedigree_with_generations(fm[2], generations - 1),
                                           father_sign, 1))
                    ELSE paternal
    IN  [map |-> maternal,
         walks |-> (IF fm[1] # None
                    THEN <<WalkRun("find_pedigree_with_generations", fm[1], generations - 1)>>
                    ELSE <<>>)
                   \o (IF fm[2] # None
                       THEN <<WalkRun("find_pedigree_with_generations", fm[2], generations - 1)>>
                       ELSE <<>>)]

\* ancestor_split placing the father's line without the shift by one
ancestor_split_noShift(individual, father_sign) ==
    LET fm == get_parents(individual)
        root_only == (0 :> <<individual>>)
        paternal == IF fm[1] # None
                    THEN PlaceAll(root_only,
                                  Adjusted(find_pedigree_with_generations(fm[1], generations - 1),
                                           father_sign, 0))
                    ELSE root_only
        maternal == IF fm[2] # None
                    THEN PlaceAll(paternal,
                                  Adjusted(find_pedigree_with_generations(fm[2], generations - 1),
                                           -father_sign, 1))
                    ELSE paternal
    IN  [map |-> maternal,
         walks |-> (IF fm[1] # None
                    THEN <<WalkRun("find_pedigree_with_generations", fm[1], generations - 1)>>
                    ELSE <<>>)
                   \o (IF fm[2] # None
                       THEN <<WalkRun("find_pedigree_with_generations", fm[2], generations - 1)>>
                       ELSE <<>>)]

\* the "ancestor-split" branch with the father's line above and the mother's
\* below (hourglass) or the father's left and the mother's right (bowtie):
\* father_sign is 1 for the hourglass and -1 for the bowtie
ancestor_split(individual, father_sign) ==
    LET fm == get_parents(individual)
        root_only == (0 :> <<individual>>)
        paternal == IF fm[1] # None
                    THEN PlaceAll(root_only,
                                  Adjusted(find_pedigree_with_generations(fm[1], generations - 1),
                                           father_sign, 1))
                    ELSE root_only
        maternal == IF fm[2] # None
                    THEN PlaceAll(paternal,
                                  Adjusted(find_pedigree_with_generations(fm[2], generations - 1),
                                           -father_sign, 1))
                    ELSE paternal
    IN  [map |-> maternal,
         walks |-> (IF fm[1] # None
                    THEN <<WalkRun("find_pedigree_with_generations", fm[1], generations - 1)>>
                    ELSE <<>>)
                   \o (IF fm[2] # None
                       THEN <<WalkRun("find_pedigree_with_generations", fm[2], generations - 1)>>
                       ELSE <<>>)]

DescendantWalks ==
    <<WalkRun("find_pedigree_with_generations", start_id, generations),
      WalkRun("find_descendants", start_id, generations)>>

\* the "descendants" branch of generate_hourglass: the ancestors where the walk
\* found them, the descendants of generation gen > 0 at -gen
hourglass_descendants ==
    LET ancestors == find_pedigree_with_generations(start_id, generations)
        descendants == find_descendants(start_id, generations)
        above == PlaceAll(<<>>, ancestors)
    IN  [map |-> PlaceAll(above, Adjusted(SelectSeq(descendants, LAMBDA d : d.gen > 0), -1, 0)),
         walks |-> DescendantWalks]

\* the "descendants" branch of generate_bowtie laid out as the hourglass does
bowtie_descendants_asHourglass ==
    LET ancestors == find_pedigree_with_generations(start_id, generations)
        descendants == find_descendants(start_id, generations)
        above == PlaceAll(<<>>, ancestors)
    IN  [map |-> PlaceAll(above, Adjusted(SelectSeq(descendants, LAMBDA d : d.gen > 0), -1, 0)),
         walks |-> DescendantWalks]

\* the "descendants" branch of generate_bowtie: the ancestors of generation
\* gen > 0 at -gen and the others at 0, the descendants of generation gen > 0
\* at gen
bowtie_descendants ==
    LET ancestors == find_pedigree_with_generations(start_id, generations)
        descendants == find_descendants(start_id, generations)
        left == PlaceAll(<<>>, [k \in 1..Len(ancestors) |->
                                   [ind |-> ancestors[k].ind,
                                    gen |-> IF ancestors[k].gen > 0
                                            THEN -ancestors[k].gen ELSE 0]])
    IN  [map |-> PlaceAll(left, SelectSeq(descendants, LAMBDA d : d.gen > 0)),
         walks |-> DescendantWalks]

\* generate_hourglass taking every variant but "ancestor-split" for "descendants"
generate_hourglass_elseDescendants ==
    /\ pc = "ccall"
    /\ pc' = "cdone"
    /\ LET individual == get_individual(start_id)
       IN  IF individual = None
           THEN Raise("Hourglass", ValueError_not_found(start_id))
           ELSE IF variant = "ancestor-split"
           THEN LET built == ancestor_split(individual, 1)
                IN  Return("Hourglass", built.map, Reversed(Sorted(DOMAIN built.map)),
                           FALSE, built.walks)
           ELSE LET built == hourglass_descendants
                IN  Return("Hourglass", built.map, Reversed(Sorted(DOMAIN built.map)),
                           FALSE, built.walks)
    /\ UNCHANGED <<store, args, variant, measure, queue, visited, min_length, paths,
                   shortest, walk>>

\* generate_hourglass(start_id, generations, variant)
generate_hourglass ==
    /\ pc = "ccall"
    /\ pc' = "cdone"
    /\ LET individual == get_individual(start_id)
       IN  IF individual = None
           THEN Raise("Hourglass", ValueError_not_found(start_id))
           ELSE IF variant = "ancestor-split"
           THEN LET built == ancestor_split(individual, 1)
                IN  Return("Hourglass", built.map, Reversed(Sorted(DOMAIN built.map)),
                           FALSE, built.walks)
           ELSE IF variant = "descendants"
           THEN LET built == hourglass_descendants
                IN  Return("Hourglass", built.map, Reversed(Sorted(DOMAIN built.map)),
                           FALSE, built.walks)
           ELSE Raise("Hourglass", ValueError_unknown_variant(variant))
    /\ UNCHANGED <<store, args, variant, measure, queue, visited, min_length, paths,
                   shortest, walk>>

\* generate_bowtie returning an empty chart for a root that is not on record
generate_bowtie_emptyForUnknown ==
    /\ pc = "ccall"
    /\ pc' = "cdone"
    /\ LET individual == get_individual(start_id)
       IN  IF individual = None
           THEN Return("Bowtie", <<>>, <<>>, FALSE, <<>>)
           ELSE IF variant = "ancestor-split"
           THEN LET built == ancestor_split(individual, -1)
                IN  Return("Bowtie", built.map, Sorted(DOMAIN built.map), FALSE, built.walks)
           ELSE IF variant = "descendants"
           THEN LET built == bowtie_descendants
                IN  Return("Bowtie", built.map, Sorted(DOMAIN built.map), FALSE, built.walks)
           ELSE Raise("Bowtie", ValueError_unknown_variant(variant))
    /\ UNCHANGED <<store, args, variant, measure, queue, visited, min_length, paths,
                   shortest, walk>>

\* generate_bowtie(start_id, generations, variant)
generate_bowtie ==
    /\ pc = "ccall"
    /\ pc' = "cdone"
    /\ LET individual == get_individual(start_id)
       IN  IF individual = None
           THEN Raise("Bowtie", ValueError_not_found(start_id))
           ELSE IF variant = "ancestor-split"
           THEN LET built == ancestor_split(individual, -1)
                IN  Return("Bowtie", built.map, Sorted(DOMAIN built.map), FALSE, built.walks)
           ELSE IF variant = "descendants"
           THEN LET built == bowtie_descendants
                IN  Return("Bowtie", built.map, Sorted(DOMAIN built.map), FALSE, built.walks)
           ELSE Raise("Bowtie", ValueError_unknown_variant(variant))
    /\ UNCHANGED <<store, args, variant, measure, queue, visited, min_length, paths,
                   shortest, walk>>

\* ------------------------------------- DotGenerator.generate_relationship
\* ValueError("No paths provided")
ValueError_no_paths ==
    [type |-> "ValueError", text |-> "No paths provided",
     individual_id |-> None, variant |-> ""]

\* ValueError("Invalid start or end individual")
ValueError_invalid_ends ==
    [type |-> "ValueError", text |-> "Invalid start or end individual",
     individual_id |-> None, variant |-> ""]

\* the label _describe_relationship gives the path; the numbers the code
\* formats into a label are left out of it
_describe_relationship(steps) ==
    IF steps = <<>>
    THEN "Same individual"
    ELSE LET gen_dist == generation_distance(steps)
             path_len == length(steps)
         IN  IF gen_dist = 0
             THEN IF path_len = 2 THEN "Siblings" ELSE "Collateral relatives"
             ELSE IF gen_dist > 0
             THEN IF path_len = gen_dist
                  THEN IF gen_dist = 1 THEN "Parent-Child"
                       ELSE IF gen_dist = 2 THEN "Grandparent-Grandchild"
                       ELSE "Direct ancestor"
                  ELSE "Descendant via collateral line"
             ELSE IF path_len = -gen_dist
             THEN "Direct descendant"
             ELSE "Ancestor via collateral line"

\* all_individuals: the start, then the individual of every step
AllIndividuals(path) ==
    <<path.start_id>> \o [k \in 1..Len(path.steps) |-> path.steps[k].individual_id]

\* the loop "for i in range(len(all_individuals) - 1)" from index i on: the
\* spouse found for all_individuals[i + 1] as a parent of all_individuals[i]
\* is entered under all_individuals[i + 1] unless it is on the path
RECURSIVE SpouseMap(_, _, _)
SpouseMap(all_individuals, i, map) ==
    IF i > Len(all_individuals) - 1
    THEN map
    ELSE LET current_ind == get_individual(all_individuals[i])
             next_ind == get_individual(all_individuals[i + 1])
             found == IF current_ind # None /\ next_ind # None
                      THEN get_spouse_for_child(next_ind, current_ind)
                      ELSE <<None, FALSE>>
             on_path == \E k \in 1..Len(all_individuals) : all_individuals[k] = found[1]
         IN  SpouseMap(all_individuals, i + 1,
                       IF found[1] # None /\ ~on_path
                       THEN (all_individuals[i + 1] :>
                                [spouse |-> found[1], is_married |-> found[2]]) @@ map
                       ELSE map)

\* the node statements from index i on: each individual once, its spouse's
\* node and their rank=same statement after it; the start's node is the one
\* marked root
RECURSIVE RelationshipNodes(_, _, _, _)
RelationshipNodes(all_individuals, i, seen, map) ==
    IF i > Len(all_individuals)
    THEN <<>>
    ELSE LET ind_id == all_individuals[i]
         IN  IF ind_id \in seen
             THEN RelationshipNodes(all_individuals, i + 1, seen, map)
             ELSE (IF get_individual(ind_id) # None
                   THEN <<[kind |-> "node", ids |-> <<ind_id>>,
                           root |-> (ind_id = all_individuals[1])]>>
                        \o (IF ind_id \in DOMAIN map
                            THEN <<[kind |-> "spouse", ids |-> <<map[ind_id].spouse>>,
                                    root |-> FALSE],
                                   [kind |-> "rank", ids |-> <<ind_id, map[ind_id].spouse>>,
                                    root |-> FALSE]>>
                            ELSE <<>>)
                   ELSE <<>>)
                  \o RelationshipNodes(all_individuals, i + 1, seen \cup {ind_id}, map)

\* the undirected statements "ind -> spouse [dir=none, style=solid|dashed]",
\* in the order the entries were made (a path that visits no individual twice
\* makes them in path order)
SpouseEdges(all_individuals, map) ==
    LET with == SelectSeq(all_individuals, LAMBDA id : id \in DOMAIN map)
    IN  [k \in 1..Len(with) |->
            [kind |-> IF map[with[k]].is_married THEN "married" ELSE "unmarried",
             ids |-> <<with[k], map[with[k]].spouse>>, root |-> FALSE]]

\* one parent -> child statement for every step of the path
PathEdges(path) ==
    LET all_individuals == AllIndividuals(path)
    IN  [k \in 1..Len(path.steps) |->
            IF path.steps[k].relation_type = PARENT
            THEN EdgeLine(all_individuals[k + 1], all_individuals[k])
            ELSE EdgeLine(all_individuals[k], all_individuals[k + 1])]

\* generate_relationship(paths), paths being the list get_shortest_paths
\* returned or one the caller made
generate_relationship ==
    /\ pc = "rcall"
    /\ pc' = "rdone"
    /\ builder' = "Relationship"
    /\ generations_map' = <<>>
    /\ walks' = <<>>
    /\ IF shortest = <<>>
       THEN /\ raised' = ValueError_no_paths
            /\ lines' = <<>>
            /\ spouse_map' = <<>>
            /\ description' = ""
       ELSE LET path == shortest[1]
            IN  IF get_individual(path.start_id) = None \/ get_individual(path.end_id) = None
                THEN /\ raised' = ValueError_invalid_ends
                     /\ lines' = <<>>
                     /\ spouse_map' = <<>>
                     /\ description' = ""
                ELSE LET all_individuals == AllIndividuals(path)
                         map == SpouseMap(all_individuals, 1, <<>>)
                     IN  /\ raised' = NoError
                         /\ description' = _describe_relationship(path.steps)
                         /\ spouse_map' = map
                         /\ lines' = <<[kind |-> "digraph", ids |-> <<>>, root |-> FALSE]>>
                                     \o RelationshipNodes(all_individuals, 1, {}, map)
                                     \o SpouseEdges(all_individuals, map)
                                     \o PathEdges(path)
                                     \o <<[kind |-> "end", ids |-> <<>>, root |-> FALSE]>>
    /\ UNCHANGED <<store, args, variant, measure, queue, visited, min_length, paths,
                   shortest, walk>>

\* --------------------------------------------------- record stores tried
\* the record store of a GEDCOM file with n individuals whose families have
\* the spouses hw (in file order) and whose individuals have the FAMC pointers
\* fc; FAMS and CHIL are the matching back pointers in file order, SEX follows
\* the spouse role where there is one, and no family has a MARR line
Records(n, hw, fc) ==
    [indi |-> [i \in 1..n |->
                 [famc |-> fc[i],
                  fams |-> SelectSeq([k \in 1..Len(hw) |-> k],
                                     LAMBDA f : hw[f][1] = i \/ hw[f][2] = i),
                  sex |-> IF \E f \in 1..Len(hw) : hw[f][1] = i THEN "M"
                          ELSE IF \E f \in 1..Len(hw) : hw[f][2] = i THEN "F" ELSE "U"]],
     fam |-> [f \in 1..Len(hw) |->
                 [husb |-> hw[f][1],
                  wife |-> hw[f][2],
                  chil |-> SelectSeq([k \in 1..n |-> k], LAMBDA i : fc[i] = f),
                  marr |-> FALSE]]]

\* HUSB/WIFE of a family: either may be absent, not both; in the stores tried
\* the odd individuals are the men and the even ones the women
Couples ==
    {hw \in (0..NumInd) \X (0..NumInd) :
        /\ hw # <<None, None>>
        /\ hw[1] = None \/ hw[1] % 2 = 1
        /\ hw[2] = None \/ hw[2] % 2 = 0}

\* every store of NumInd individuals and NumFam families, malformed ones
\* (an individual among its own ancestors) included
SmallStores ==
    {Records(NumInd, hw, fc) : hw \in [Fam -> Couples], fc \in [Ind -> 0..NumFam]}

\* the sample family of the tests: I1/I2 have I3, I3/I4 have I5, I5/I6 have
\* the siblings I7 and I8, I7 has I9, and I10 is related to nobody
SampleStore ==
    Records(10, <<<<1, 2>>, <<3, 4>>, <<5, 6>>, <<7, 0>>>>,
            <<0, 0, 1, 0, 2, 0, 3, 3, 4, 0>>)

\* I1 has I3 with I2 and I5 with I4, and I4 is I2's child: I3 and I5 are
\* joined by a walk of two edges and by another of three
StepStore ==
    Records(5, <<<<1, 2>>, <<1, 4>>, <<0, 2>>>>, <<0, 0, 1, 3, 2>>)

\* I1 has I2, and with I2 has I3: I1 and I3 are one edge and two edges apart
TriangleStore ==
    Records(3, <<<<1, 2>>, <<1, 0>>>>, <<0, 2, 1>>)

\* I4 is the child of I1 and I2, who are both children of I3
CollapseStore ==
    Records(4, <<<<1, 2>>, <<3, 0>>>>, <<2, 2, 0, 1>>)

\* a malformed file: I1 is the father of I2 and I2 the mother of I1
LoopStore ==
    Records(2, <<<<1, 0>>, <<0, 2>>>>, <<2, 1>>)

\* SEX lines at odds with the HUSB and WIFE lines: I1 (no SEX line) and I2
\* (SEX M) are HUSB and WIFE of the family of I3 and I4, and I3 (SEX F) is
\* the HUSB of the family of I5
SexStore ==
    LET g == Records(5, <<<<1, 2>>, <<3, 0>>>>, <<0, 0, 1, 1, 2>>)
    IN  [g EXCEPT !.indi[1].sex = "U", !.indi[2].sex = "M", !.indi[3].sex = "F"]

Stores ==
    SmallStores \cup {SampleStore, StepStore, TriangleStore, CollapseStore, LoopStore,
                      SexStore}

\* ------------------------------------------------------- specifications
\* no DotGenerator method has been called
ChartIdle ==
    /\ builder = "none"
    /\ variant = ""
    /\ generations_map = <<>>
    /\ lines = <<>>
    /\ raised = NoError
    /\ walks = <<>>
    /\ spouse_map = <<>>
    /\ description = ""

Init ==
    /\ \E g \in Stores : indi = g.indi /\ fam = g.fam
    /\ pc = "call"
    /\ start_id \in {None} \cup DOMAIN indi
    /\ end_id \in {None} \cup DOMAIN indi
    /\ max_depth \in 0..MaxDepth
    /\ generations = 0
    /\ queue = <<>>
    /\ visited = <<>>
    /\ min_length = Unset
    /\ paths = <<>>
    /\ shortest = <<>>
    /\ pedigree = <<>>
    /\ placed = <<>>
    /\ measured = <<>>
    /\ distance = 0
    /\ compared = <<>>
    /\ keys = <<>>
    /\ ChartIdle

Next ==
    \/ FindStart
    \/ FindStep
    \/ FindReturn
    \/ Rank

Spec == Init /\ [][Next]_vars

InitPed ==
    /\ \E g \in Stores : indi = g.indi /\ fam = g.fam
    /\ pc = "pcall"
    /\ start_id \in {None} \cup DOMAIN indi
    /\ end_id = None
    /\ max_depth = 0
    /\ generations \in 0..MaxDepth
    /\ queue = <<>>
    /\ visited = {}
    /\ min_length = Unset
    /\ paths = <<>>
    /\ shortest = <<>>
    /\ pedigree = <<>>
    /\ placed = <<>>
    /\ measured = <<>>
    /\ distance = 0
    /\ compared = <<>>
    /\ keys = <<>>
    /\ ChartIdle

NextPed ==
    \/ PedStart
    \/ PedStep
    \/ PedReturn

SpecPed == InitPed /\ [][NextPed]_vars

\* ------------------------------------------ generation_distance, measured
MaxSteps == 3      \* longest step list measured

StepValues ==
    [individual_id : {1}, relation_type : {PARENT, CHILD},
     blood_type : {FULL, HALF}, via_male : BOOLEAN]

StepLists == UNION {[1..n -> StepValues] : n \in 0..MaxSteps}

\* RelationshipPath.generation_distance() called on the path
Measure ==
    /\ pc = "dcall"
    /\ distance' = generation_distance(measured)
    /\ pc' = "ddone"
    /\ UNCHANGED <<store, args, chart, measured, compared, keys, queue, visited, min_length,
                   paths, shortest, walk>>

InitDist ==
    /\ indi = <<>>
    /\ fam = <<>>
    /\ pc = "dcall"
    /\ start_id = None
    /\ end_id = None
    /\ max_depth = 0
    /\ generations = 0
    /\ queue = <<>>
    /\ visited = <<>>
    /\ min_length = Unset
    /\ paths = <<>>
    /\ shortest = <<>>
    /\ pedigree = <<>>
    /\ placed = <<>>
    /\ measured \in StepLists
    /\ distance = 0
    /\ compared = <<>>
    /\ keys = <<>>
    /\ ChartIdle

NextDist == Measure

SpecDist == InitDist /\ [][NextDist]_vars

\* ------------------------------------------------ sorting_key, two paths
\* the steps tried: every blood_type with every via_male
KeyStepValues ==
    {s \in StepValues : s.relation_type = CHILD}

KeyStepLists == UNION {[1..n -> KeyStepValues] : n \in 0..MaxSteps}

\* sorting_key() of both paths, and lines 295-301 of get_shortest_paths on
\* the list of the two
Compare ==
    /\ pc = "kcall"
    /\ keys' = <<sorting_key(measured), sorting_key(compared)>>
    /\ shortest' = get_shortest_paths(<<RelationshipPath(measured, None, None),
                                        RelationshipPath(compared, None, None)>>)
    /\ pc' = "kdone"
    /\ UNCHANGED <<store, args, chart, measured, distance, compared, queue, visited,
                   min_length, paths, walk>>

InitKey ==
    /\ indi = <<>>
    /\ fam = <<>>
    /\ pc = "kcall"
    /\ start_id = None
    /\ end_id = None
    /\ max_depth = 0
    /\ generations = 0
    /\ queue = <<>>
    /\ visited = <<>>
    /\ min_length = Unset
    /\ paths = <<>>
    /\ shortest = <<>>
    /\ pedigree = <<>>
    /\ placed = <<>>
    /\ measured \in KeyStepLists
    /\ distance = 0
    /\ compared \in KeyStepLists
    /\ keys = <<>>
    /\ ChartIdle

NextKey == Compare

SpecKey == InitKey /\ [][NextKey]_vars

\* ----------------------------------------------------------- the charts
\* the variant names tried: the two the methods know and one they do not
Variants == {"ancestor-split", "descendants", "sideways"}

InitChart ==
    /\ \E g \in Stores : indi = g.indi /\ fam = g.fam
    /\ pc = "ccall"
    /\ start_id \in {None} \cup DOMAIN indi
    /\ end_id = None
    /\ max_depth = 0
    /\ generations \in 0..MaxDepth
    /\ queue = <<>>
    /\ visited = <<>>
    /\ min_length = Unset
    /\ paths = <<>>
    /\ shortest = <<>>
    /\ pedigree = <<>>
    /\ placed = <<>>
    /\ measured = <<>>
    /\ distance = 0
    /\ compared = <<>>
    /\ keys = <<>>
    /\ builder = "none"
    /\ variant \in Variants
    /\ generations_map = <<>>
    /\ lines = <<>>
    /\ raised = NoError
    /\ walks = <<>>
    /\ spouse_map = <<>>
    /\ description = ""

NextChart ==
    \/ generate_pedigree
    \/ generate_hourglass
    \/ generate_bowtie

SpecChart == InitChart /\ [][NextChart]_vars

\* ------------------------------------------- every operation of the engine
InitEngine ==
    \/ Init
    \/ InitPed
    \/ InitChart

NextEngine ==
    \/ Next
    \/ NextPed
    \/ NextChart

SpecEngine == InitEngine /\ [][NextEngine]_vars

\* ------------------------------------------------ the traversals, run on
\* the default max_depth of the path queries
DefaultDepth == 10

InitRun ==
    \/ Init
    \/ InitPed
    \/ /\ \E g \in Stores : indi = g.indi /\ fam = g.fam
       /\ pc = "call"
       /\ start_id \in DOMAIN indi
       /\ end_id \in DOMAIN indi
       /\ max_depth = DefaultDepth
       /\ generations = 0
       /\ queue = <<>>
       /\ visited = <<>>
       /\ min_length = Unset
       /\ paths = <<>>
       /\ shortest = <<>>
       /\ pedigree = <<>>
       /\ placed = <<>>
       /\ measured = <<>>
       /\ distance = 0
       /\ compared = <<>>
       /\ keys = <<>>
       /\ ChartIdle

NextRun ==
    \/ Next
    \/ NextPed

SpecRun == InitRun /\ [][NextRun]_vars

\* a call that has started goes on until it returns: the interpreter runs
\* the loop as long as its condition holds
SpecRunFair == SpecRun /\ WF_vars(NextRun)

\* ------------------------------------------------- the relationship chart
\* the store g with the MARR lines m: family -> whether it has one
WithMarriages(g, m) ==
    [g EXCEPT !.fam = [f \in DOMAIN g.fam |-> [g.fam[f] EXCEPT !.marr = m[f]]]]

\* the step lists of at most n steps that start at individual, each step one
\* of _get_neighbors, no individual visited twice
RECURSIVE StepSeqs(_, _, _)
StepSeqs(individual, seen, n) ==
    {<<>>} \cup
    (IF n = 0
     THEN {}
     ELSE UNION {UNION {{<<step>> \o rest :
                           rest \in StepSeqs(step.individual_id,
                                             seen \cup {step.individual_id}, n - 1)} :
                        step \in {st \in {neighbors[k] : k \in DOMAIN neighbors} :
                                     st.individual_id \notin seen}} :
                 neighbors \in {_get_neighbors(individual)}})

\* the individual a step list from s ends at
EndOf(s, steps) ==
    IF steps = <<>> THEN s ELSE steps[Len(steps)].individual_id

\* generate_relationship is called with the empty list, with a path between
\* ids that do not resolve, or with one path of the store
InitRel ==
    /\ \E g \in Stores : \E m \in [DOMAIN g.fam -> BOOLEAN] :
           /\ indi = g.indi
           /\ fam = WithMarriages(g, m).fam
    /\ pc = "rcall"
    /\ start_id \in {None} \cup DOMAIN indi
    /\ \E steps \in (IF start_id = None THEN {<<>>}
                     ELSE StepSeqs(start_id, {start_id}, MaxSteps)) :
           /\ end_id = EndOf(start_id, steps)
           /\ shortest \in {<<RelationshipPath(steps, start_id, end_id)>>}
                           \cup (IF steps = <<>> THEN {<<>>} ELSE {})
    /\ max_depth = 0
    /\ generations = 0
    /\ queue = <<>>
    /\ visited = <<>>
    /\ min_length = Unset
    /\ paths = <<>>
    /\ pedigree = <<>>
    /\ placed = <<>>
    /\ measured = <<>>
    /\ distance = 0
    /\ compared = <<>>
    /\ keys = <<>>
    /\ ChartIdle

NextRel == generate_relationship

SpecRel == InitRel /\ [][NextRel]_vars

\* ===================================================================
\* The family graph, read off the records without the path finder
\* ===================================================================
\* p is HUSB or WIFE of c's FAMC family
IsParentOf(p, c) ==
    /\ indi[c].famc \in DOMAIN fam
    /\ p \in {fam[indi[c].famc].husb, fam[indi[c].famc].wife}

\* c is a CHIL of one of p's FAMS families
IsChildOf(c, p) ==
    \E k \in 1..Len(indi[p].fams) :
        /\ indi[p].fams[k] \in DOMAIN fam
        /\ \E j \in 1..Len(fam[indi[p].fams[k]].chil) : fam[indi[p].fams[k]].chil[j] = c

\* one parent/child edge leads from u to v
Linked(u, v) ==
    IsParentOf(v, u) \/ IsChildOf(v, u)

\* the individuals some walk of at most k edges reaches from s
RECURSIVE Within(_, _)
Within(s, k) ==
    IF k = 0
    THEN {s}
    ELSE LET B == Within(s, k - 1)
         IN  B \cup {v \in DOMAIN indi : \E u \in B : Linked(u, v)}

\* the ancestors of i found within k generations
RECURSIVE AncestorsWithin(_, _)
AncestorsWithin(i, k) ==
    IF k = 0
    THEN {}
    ELSE LET A == AncestorsWithin(i, k - 1)
         IN  A \cup {p \in DOMAIN indi : IsParentOf(p, i) \/ \E a \in A : IsParentOf(p, a)}

\* a store as genealogy produces it: nobody is an ancestor of themselves
Sound ==
    \A i \in DOMAIN indi : i \notin AncestorsWithin(i, Len(indi))

Connected(s, e) ==
    e \in Within(s, Len(indi))

\* length of a shortest walk from s to e, for connected s and e
Distance(s, e) ==
    CHOOSE d \in 0..Len(indi) :
        /\ e \in Within(s, d)
        /\ \A c \in 0..(d - 1) : e \notin Within(s, c)

\* the walks of exactly d >= 1 edges from s to e, as the individuals stepped to
Walks(s, e, d) ==
    {w \in [1..d -> DOMAIN indi] :
        /\ w[d] = e
        /\ Linked(s, w[1])
        /\ \A k \in 1..(d - 1) : Linked(w[k], w[k + 1])}

\* the individuals a returned path steps to
Route(p) ==
    [k \in 1..Len(p.steps) |-> p.steps[k].individual_id]

Resolvable(id) ==
    id \in DOMAIN indi

Searched ==
    /\ pc = "returned"
    /\ Resolvable(start_id)
    /\ Resolvable(end_id)
    /\ start_id # end_id

\* ===================================================================
\* Claims
\* ===================================================================

\* C1: for resolvable start != end, find_relationship_paths returns the empty
\* list if and only if no walk of at most max_depth parent/child edges leads
\* from start to end.
C1_EmptyIffNoWalk ==
    Searched => ((paths = <<>>) <=> (end_id \notin Within(start_id, max_depth)))

\* C1 witness: in a sound store, start and end are connected, but only beyond
\* max_depth >= 1, and the search has returned the empty list.
C1_Witness ==
    /\ Searched
    /\ Sound
    /\ max_depth >= 1
    /\ Connected(start_id, end_id)
    /\ end_id \notin Within(start_id, max_depth)
    /\ paths = <<>>

\* C2: for resolvable start != end at distance d <= max_depth, every walk of
\* d edges from start to end is the route of some returned path.
C2_EveryShortestWalk ==
    (Searched /\ end_id \in Within(start_id, max_depth)) =>
        \A w \in Walks(start_id, end_id, Distance(start_id, end_id)) :
            \E k \in 1..Len(paths) : Route(paths[k]) = w

\* C2 witness: a diamond in a sound store, two different walks of two edges from start to end,
\* both among the returned paths.
C2_Witness ==
    /\ Searched
    /\ Sound
    /\ Connected(start_id, end_id)
    /\ Distance(start_id, end_id) = 2
    /\ \E k, j \in 1..Len(paths) :
            /\ Len(paths[k].steps) = 2
            /\ Len(paths[j].steps) = 2
            /\ Route(paths[k]) # Route(paths[j])

\* C3: every path find_relationship_paths returns has the length of a shortest
\* walk from start to end.
C3_OnlyMinimalPaths ==
    Searched =>
        \A k \in 1..Len(paths) :
            Len(paths[k].steps) = Distance(start_id, end_id)
\* C4: get_shortest_paths returns exactly the paths of find_relationship_paths
\* whose sorting key is the minimum key of that list: every returned path has
\* that key, every path with that key is returned (ties kept, as often as they
\* occur), and the result is empty exactly when the list is empty.
C4_ExactlyMinimumKey ==
    pc = "ranked" =>
        LET key(p) == sorting_key(p.steps)
            IsMin(p) == \A j \in 1..Len(paths) : ~KeyLess(key(paths[j]), key(p))
            Kept(p) == {k \in 1..Len(shortest) : shortest[k] = p}
            Found(p) == {j \in 1..Len(paths) : paths[j] = p}
        IN  /\ \A k \in 1..Len(shortest) :
                    /\ Found(shortest[k]) # {}
                    /\ IsMin(shortest[k])
                    /\ key(shortest[k]) = key(shortest[1])
            /\ \A j \in 1..Len(paths) :
                    IsMin(paths[j]) => Cardinality(Kept(paths[j])) = Cardinality(Found(paths[j]))
            /\ (shortest = <<>>) <=> (paths = <<>>)

\* C4 witness: in a sound store, two found paths of the same length, one of them kept and the
\* other one, of a larger key, left out.
C4_Witness ==
    /\ pc = "ranked"
    /\ Sound
    /\ shortest # <<>>
    /\ \E j \in 1..Len(paths) :
            /\ Len(paths[j].steps) = Len(shortest[1].steps)
            /\ \A k \in 1..Len(shortest) : shortest[k] # paths[j]

\* C5: for a resolvable id x, find_relationship_paths(x, x, max_depth) returns
\* exactly one path, of zero steps and generation distance 0.
C5_SameIndividual ==
    (pc = "returned" /\ Resolvable(start_id) /\ start_id = end_id) =>
        /\ Len(paths) = 1
        /\ paths[1].steps = <<>>
        /\ generation_distance(paths[1].steps) = 0

\* C5 witness: the search from an individual to itself has returned, here for
\* max_depth = 0 and an individual that has relatives.
C5_Witness ==
    /\ pc = "returned"
    /\ Resolvable(start_id)
    /\ start_id = end_id
    /\ max_depth = 0
    /\ \E v \in DOMAIN indi : Linked(start_id, v)
    /\ Len(paths) = 1

\* C6: when start_id or end_id does not resolve, find_relationship_paths and
\* get_shortest_paths both return the empty list; the query ends by returning.
C6_UnresolvedIsEmpty ==
    (~Resolvable(start_id) \/ ~Resolvable(end_id)) =>
        /\ pc \in {"call", "returned", "ranked"}
        /\ pc = "returned" => paths = <<>>
        /\ pc = "ranked" => paths = <<>> /\ shortest = <<>>

\* C6 witness: get_shortest_paths has returned for a resolvable start and an
\* end that does not resolve.
C6_Witness ==
    /\ pc = "ranked"
    /\ Resolvable(start_id)
    /\ ~Resolvable(end_id)
    /\ shortest = <<>>

\* C7: no found path and no queued path has more than max_depth steps.
C7_WithinMaxDepth ==
    /\ \A k \in 1..Len(paths) : Len(paths[k].steps) <= max_depth
    /\ pc = "loop" => \A q \in 1..Len(queue) : Len(queue[q].path) <= max_depth

\* C7 witness: in a sound store, a path of max_depth steps was returned where a walk of
\* max_depth + 1 edges leads from start to end as well.
C7_Witness ==
    /\ Searched
    /\ Sound
    /\ max_depth >= 1
    /\ \E k \in 1..Len(paths) : Len(paths[k].steps) = max_depth
    /\ Walks(start_id, end_id, max_depth + 1) # {}

\* C8: generation_distance() is the number of toward-child steps minus the
\* number of toward-parent steps: +length for child steps only, -length for
\* parent steps only, 0 for as many of the one as of the other.
C8_GenerationDistance ==
    pc = "ddone" =>
        LET down == Cardinality({k \in 1..Len(measured) : measured[k].relation_type = CHILD})
            up == Cardinality({k \in 1..Len(measured) : measured[k].relation_type = PARENT})
        IN  /\ distance = down - up
            /\ up = 0 => distance = Len(measured)
            /\ down = 0 => distance = 0 - Len(measured)
            /\ up = down => distance = 0

\* C8 witness: the path between two siblings, one step to the parent and one
\* to the child, measured as 0.
C8_Witness ==
    /\ pc = "ddone"
    /\ Len(measured) = 2
    /\ measured[1].relation_type = PARENT
    /\ measured[2].relation_type = CHILD
    /\ distance = 0

\* C9: every path returned for start != end is a connected walk from start to
\* end: a toward-parent step leads to the father or mother of the individual
\* before it, a toward-child step to one of its children, the last step to end.
C9_ConnectedWalk ==
    Searched =>
        \A k \in 1..Len(paths) :
            LET st == paths[k].steps
                prev(i) == IF i = 1 THEN start_id ELSE st[i - 1].individual_id
            IN  /\ Len(st) >= 1
                /\ st[Len(st)].individual_id = end_id
                /\ \A i \in 1..Len(st) :
                        \/ st[i].relation_type = PARENT /\ IsParentOf(st[i].individual_id, prev(i))
                        \/ st[i].relation_type = CHILD /\ IsChildOf(st[i].individual_id, prev(i))

\* C9 witness: in a sound store, a returned path that first steps to a parent and later to a
\* child.
C9_Witness ==
    /\ Searched
    /\ Sound
    /\ \E k \in 1..Len(paths) :
            /\ Len(paths[k].steps) >= 2
            /\ paths[k].steps[1].relation_type = PARENT
            /\ paths[k].steps[Len(paths[k].steps)].relation_type = CHILD

\* C10: the pedigree of a resolvable root with bound generations >= 0 starts
\* with the root at generation 0, holds no individual of a generation beyond
\* the bound, and holds each individual at most once.
C10_Pedigree ==
    (pc \in {"ploop", "pdone"} /\ Resolvable(start_id)) =>
        /\ pc = "pdone" => Len(pedigree) >= 1
        /\ Len(pedigree) >= 1 => pedigree[1] = start_id /\ placed[1] = 0
        /\ \A k \in 1..Len(pedigree) : placed[k] <= generations
        /\ \A k, j \in 1..Len(pedigree) : pedigree[k] = pedigree[j] => k = j

\* C10 witness: in a sound store, the finished pedigree of a root whose father and mother have
\* a parent in common, that ancestor included.
C10_Witness ==
    /\ pc = "pdone"
    /\ Sound
    /\ Resolvable(start_id)
    /\ \E f, m, a \in DOMAIN indi :
            /\ f # m
            /\ IsParentOf(f, start_id)
            /\ IsParentOf(m, start_id)
            /\ IsParentOf(a, f)
            /\ IsParentOf(a, m)
            /\ a \notin {start_id, f, m}
            /\ \E k \in 1..Len(pedigree) : pedigree[k] = a

\* a DotGenerator method has returned its chart
Charted ==
    /\ pc = "cdone"
    /\ raised = NoError

\* C11: in the generations_map of a pedigree chart and of an hourglass or
\* bowtie chart of either variant, offset 0 holds exactly one individual, the
\* root, once the whole map is built.
C11_RootAloneAtZero ==
    Charted =>
        /\ 0 \in DOMAIN generations_map
        /\ generations_map[0] = <<get_individual(start_id)>>

\* a bowtie chart of the descendants variant with ancestors on one side and
\* descendants on the other
C11_Witness ==
    /\ Charted
    /\ Sound
    /\ builder = "Bowtie"
    /\ variant = "descendants"
    /\ {-1, 0, 1} \subseteq DOMAIN generations_map
    /\ generations_map[0] = <<start_id>>

KnownVariants == {"ancestor-split", "descendants"}

\* C12: generate_hourglass and generate_bowtie called for a resolvable root
\* with a variant other than "ancestor-split" and "descendants" raise an error
\* whose message names that variant, and return no chart.
C12_UnknownVariantRaises ==
    (/\ pc = "cdone"
     /\ builder \in {"Hourglass", "Bowtie"}
     /\ Resolvable(start_id)
     /\ variant \notin KnownVariants)
        => /\ raised.type = "ValueError"
           /\ raised.text = "Unknown variant"
           /\ raised.variant = variant
           /\ lines = <<>>
           /\ generations_map = <<>>

\* generate_hourglass was called for an individual on record with the variant
\* "sideways"
C12_Witness ==
    /\ pc = "cdone"
    /\ builder = "Hourglass"
    /\ Resolvable(start_id)
    /\ variant = "sideways"
    /\ raised = ValueError_unknown_variant("sideways")

\* the id the operation was called with names no record: the root of a chart
\* or of a pedigree, either end of a path query
CalledWithUnresolved ==
    \/ pc \in {"cdone", "pdone"} /\ ~Resolvable(start_id)
    \/ pc \in {"returned", "ranked"} /\ (~Resolvable(start_id) \/ ~Resolvable(end_id))

\* C13 as stated: no operation given an id that does not resolve raises, and
\* an unknown variant is the only condition under which an operation raises.
C13_NeverRaisesForUnresolved ==
    /\ CalledWithUnresolved => raised = NoError
    /\ raised # NoError => variant \notin KnownVariants /\ raised.text = "Unknown variant"

\* C13, amended: the path queries and find_pedigree never raise and return
\* the empty list for an id that does not resolve; generate_pedigree,
\* generate_hourglass and generate_bowtie raise ValueError naming the id when
\* the root does not resolve, generate_hourglass and generate_bowtie raise
\* ValueError naming the variant when the root resolves and the variant is
\* unknown, and none of these operations raises in any other case.
C13_RaisesExactly ==
    /\ pc \in {"returned", "ranked"} =>
           /\ raised = NoError
           /\ (~Resolvable(start_id) \/ ~Resolvable(end_id)) => paths = <<>>
    /\ pc = "ranked" /\ (~Resolvable(start_id) \/ ~Resolvable(end_id)) => shortest = <<>>
    /\ pc = "pdone" =>
           /\ raised = NoError
           /\ ~Resolvable(start_id) => pedigree = <<>>
    /\ pc = "cdone" =>
           raised = IF ~Resolvable(start_id)
                    THEN ValueError_not_found(start_id)
                    ELSE IF builder # "Pedigree" /\ variant \notin KnownVariants
                    THEN ValueError_unknown_variant(variant)
                    ELSE NoError

\* generate_bowtie was called with a known variant for an id that names no
\* record, and raised
C13_Witness ==
    /\ pc = "cdone"
    /\ builder = "Bowtie"
    /\ variant = "descendants"
    /\ ~Resolvable(start_id)
    /\ raised.type = "ValueError"
    /\ raised.individual_id = start_id

\* C14: generate_pedigree, generate_hourglass and generate_bowtie raise
\* ValueError when the root id does not resolve, before any walk is run and
\* before any output line is produced.
C14_UnresolvedRootRaises ==
    (pc = "cdone" /\ ~Resolvable(start_id))
        => /\ raised.type = "ValueError"
           /\ raised.text = "Individual not found"
           /\ raised.individual_id = start_id
           /\ walks = <<>>
           /\ lines = <<>>

\* generate_pedigree was called for an id that names no record
C14_Witness ==
    /\ pc = "cdone"
    /\ builder = "Pedigree"
    /\ ~Resolvable(start_id)
    /\ raised = ValueError_not_found(start_id)
    /\ walks = <<>>

\* the children of u in record order: the CHIL lines of u's FAMS families, the
\* families in the order of u's FAMS lines
RECURSIVE ChilOf(_)
ChilOf(families) ==
    IF families = <<>>
    THEN <<>>
    ELSE (IF Head(families) \in DOMAIN fam THEN fam[Head(families)].chil ELSE <<>>)
         \o ChilOf(Tail(families))

\* the place of the step among the steps leaving u: the father's first, the
\* mother's second, then the children's in record order
StepRank(u, step) ==
    IF step.relation_type = PARENT
    THEN IF step.individual_id = fam[indi[u].famc].husb THEN 1 ELSE 2
    ELSE LET children == ChilOf(indi[u].fams)
         IN  2 + (CHOOSE k \in 1..Len(children) :
                     /\ children[k] = step.individual_id
                     /\ \A j \in 1..(k - 1) : children[j] # step.individual_id)

RankSeq(p) ==
    [k \in 1..Len(p.steps) |->
        StepRank(IF k = 1 THEN p.start_id ELSE p.steps[k - 1].individual_id, p.steps[k])]

\* a comes before b in the order of the dictionary
LexLess(a, b) ==
    \E k \in 1..Len(a) :
        /\ k <= Len(b)
        /\ a[k] < b[k]
        /\ \A j \in 1..(k - 1) : a[j] = b[j]

\* the place a breadth-first search that enumerates the neighbours in that
\* order gives to two paths it finds
FoundBefore(p, q) ==
    \/ Len(p.steps) < Len(q.steps)
    \/ Len(p.steps) = Len(q.steps) /\ LexLess(RankSeq(p), RankSeq(q))

\* the entry of the pedigree whose expansion found entry k, and whether k was
\* found as its father (1) or as its mother (2)
FoundBy(k) ==
    LET finders == {m \in 1..Len(pedigree) :
                       /\ placed[m] < generations
                       /\ IsParentOf(pedigree[k], pedigree[m])}
        first == CHOOSE m \in finders : \A n \in finders : m <= n
    IN  <<first, IF pedigree[k] = fam[indi[pedigree[first]].famc].husb THEN 1 ELSE 2>>

\* C15: the results of a query come in the one order that the enumeration of
\* the neighbours fixes - father, then mother, then the children in record
\* order: find_relationship_paths and get_shortest_paths list a path ahead of
\* every longer one and ahead of every equally long one that leaves the common
\* prefix by a later neighbour, and find_pedigree lists the root first and the
\* ancestors in the order their children were listed, father before mother.
\* The list a query returns is thereby fixed by the store and the arguments.
C15_OrderFixedByNeighbours ==
    /\ pc \in {"returned", "ranked"} =>
           \A i, j \in 1..Len(paths) : i < j => FoundBefore(paths[i], paths[j])
    /\ pc = "ranked" =>
           \A i, j \in 1..Len(shortest) : i < j => FoundBefore(shortest[i], shortest[j])
    /\ pc = "pdone" /\ pedigree # <<>> =>
           /\ pedigree[1] = start_id
           /\ \A i, j \in 2..Len(pedigree) : i < j => LexLess(FoundBy(i), FoundBy(j))

\* two paths of the same length were returned, the first leaving the start by
\* its father and the second by its mother
C15_Witness ==
    /\ pc = "ranked"
    /\ Len(paths) = 2
    /\ Len(paths[1].steps) = Len(paths[2].steps)
    /\ RankSeq(paths[1])[1] = 1
    /\ RankSeq(paths[2])[1] = 2

\* the query has returned
Returned ==
    pc \in {"ranked", "pdone"}

\* under SpecRunFair every call returns with its queue empty
Terminates ==
    <>(Returned /\ queue = <<>>)

\* the depth of a queue entry: the length of its path (path finder) or its
\* generation (pedigree)
Depth(entry) ==
    IF pc = "loop" THEN Len(entry.path) ELSE entry.gen

\* no entry is deeper than the bound of the call, nor than a walk that repeats
\* no individual
DepthBound ==
    LET bound == IF pc = "loop" THEN max_depth ELSE generations
    IN  IF bound < Len(indi) - 1 THEN bound ELSE Len(indi) - 1

\* the number of queue entries of depth d
Entries(q, d) ==
    Cardinality({k \in 1..Len(q) : Depth(q[k]) = d})

\* C16: find_relationship_paths and find_pedigree terminate on every store,
\* those with an individual among its own ancestors included, for every start,
\* end, max_depth and generations: every iteration of either "while queue"
\* loop leaves a queue whose entries are no deeper than DepthBound and whose
\* numbers of entries per depth 0..DepthBound are smaller in the order of the
\* dictionary, an order without infinite descent, so the queue runs empty.
C16_QueueRunsEmpty ==
    [][(pc \in {"loop", "ploop"} /\ queue # <<>>) =>
          /\ \A k \in 1..Len(queue') : Depth(queue'[k]) \in 0..DepthBound
          /\ \E d \in 0..DepthBound :
                /\ Entries(queue', d) < Entries(queue, d)
                /\ \A c \in 0..(d - 1) : Entries(queue', c) = Entries(queue, c)]_vars

\* a path query run with the default max_depth on a store with an individual
\* among its own ancestors has returned
C16_Witness ==
    /\ pc = "ranked"
    /\ max_depth = DefaultDepth
    /\ ~Sound
    /\ queue = <<>>
    /\ paths # <<>>

\* the number of steps of blood_type HALF, and of steps that are not via_male
HalfSteps(steps) ==
    Cardinality({k \in 1..Len(steps) : steps[k].blood_type = HALF})

FemaleSteps(steps) ==
    Cardinality({k \in 1..Len(steps) : ~steps[k].via_male})

\* C17 as stated: sorting_key() returns (length, blood_score, male_score)
\* with blood_score the number of half steps and male_score the number of
\* steps that are not via-male.
C17_BloodScoreCountsHalfSteps ==
    pc = "kdone" =>
        keys[1] = <<Len(measured), HalfSteps(measured), FemaleSteps(measured)>>

\* C17, amended: sorting_key() returns (length, blood_score, male_score) with
\* blood_score the sum of the step weights, 1 for a full and 2 for a half
\* step, that is the number of steps plus the number of half steps, and
\* male_score the number of steps that are not via-male.
C17_BloodScoreSumsWeights ==
    pc = "kdone" =>
        keys[1] = <<Len(measured), Len(measured) + HalfSteps(measured), FemaleSteps(measured)>>

\* the key of a path of a full step via a woman and a half step via a man
C17_Witness ==
    /\ pc = "kdone"
    /\ Len(measured) = 2
    /\ measured[1].blood_type = FULL /\ ~measured[1].via_male
    /\ measured[2].blood_type = HALF /\ measured[2].via_male
    /\ keys[1] = <<2, 3, 1>>

\* the key the preference order is stated in
ReferenceKey(steps) ==
    <<Len(steps), HalfSteps(steps), FemaleSteps(steps)>>

\* C18: sorting_key() orders any two paths as the key (length, number of half
\* steps, number of via-female steps) does, and get_shortest_paths keeps of
\* two paths the one that comes first in that order, or both when their
\* reference keys are equal.
C18_SameOrderAsReference ==
    pc = "kdone" =>
        /\ KeyLess(keys[1], keys[2]) <=> KeyLess(ReferenceKey(measured), ReferenceKey(compared))
        /\ keys[1] = keys[2] <=> ReferenceKey(measured) = ReferenceKey(compared)
        /\ KeyLess(ReferenceKey(measured), ReferenceKey(compared))
              => shortest = <<RelationshipPath(measured, None, None)>>
        /\ KeyLess(ReferenceKey(compared), ReferenceKey(measured))
              => shortest = <<RelationshipPath(compared, None, None)>>
        /\ ReferenceKey(measured) = ReferenceKey(compared)
              => shortest = <<RelationshipPath(measured, None, None),
                              RelationshipPath(compared, None, None)>>

\* a path of two half steps was ranked against one of three full steps, and
\* the shorter one was kept although its blood score is the larger
C18_Witness ==
    /\ pc = "kdone"
    /\ Len(measured) = 2 /\ HalfSteps(measured) = 2
    /\ Len(compared) = 3 /\ HalfSteps(compared) = 0
    /\ keys[1][2] > keys[2][2]
    /\ shortest = <<RelationshipPath(measured, None, None)>>

\* the individual the k-th step of path p leaves
Departed(p, k) ==
    IF k = 1 THEN get_individual(p.start_id) ELSE p.steps[k - 1].individual_id

\* the parent and the child of the edge the k-th step of p runs along
EdgeParent(p, k) ==
    IF p.steps[k].relation_type = PARENT THEN p.steps[k].individual_id ELSE Departed(p, k)

EdgeChild(p, k) ==
    IF p.steps[k].relation_type = PARENT THEN Departed(p, k) ELSE p.steps[k].individual_id

\* the child has both parents on record and they are HUSB and WIFE of one of
\* the parent's FAMS families
FullBlood(parent, child) ==
    /\ indi[child].famc \in DOMAIN fam
    /\ LET father == fam[indi[child].famc].husb
           mother == fam[indi[child].famc].wife
       IN  /\ father \in DOMAIN indi
           /\ mother \in DOMAIN indi
           /\ \E k \in 1..Len(indi[parent].fams) :
                 /\ indi[parent].fams[k] \in DOMAIN fam
                 /\ fam[indi[parent].fams[k]].husb = father
                 /\ fam[indi[parent].fams[k]].wife = mother

\* C19: every step of a returned path, whichever its direction, has blood
\* weight full exactly when the child of its edge has both parents on record
\* and that pair is the husband/wife pair of a family of the edge's parent,
\* and half otherwise.
C19_BloodWeightOfEdge ==
    pc = "returned" =>
        \A i \in 1..Len(paths) : \A k \in 1..Len(paths[i].steps) :
            paths[i].steps[k].blood_type = FULL
                <=> FullBlood(EdgeParent(paths[i], k), EdgeChild(paths[i], k))

\* C20 as stated: a toward-child step is via-male exactly when the individual
\* departed from has sex M; a toward-parent step is via-male exactly when the
\* individual departed from is male and the parent reached is male; an
\* individual of unknown sex never yields via-male.
C20_ViaMaleBySexOfBothEnds ==
    pc = "returned" =>
        \A i \in 1..Len(paths) : \A k \in 1..Len(paths[i].steps) :
            LET step == paths[i].steps[k]
                from == Departed(paths[i], k)
            IN  /\ step.relation_type = CHILD =>
                       (step.via_male <=> indi[from].sex = "M")
                /\ step.relation_type = PARENT =>
                       (step.via_male <=> indi[from].sex = "M"
                                          /\ indi[step.individual_id].sex = "M")
                /\ indi[from].sex = "U" => ~step.via_male

\* C20, amended: a step is via-male exactly when the parent of its edge counts
\* as male: for a toward-child step, when the individual departed from has
\* recorded sex M (so a parent of unknown sex yields not via-male); for a
\* toward-parent step, when the parent reached is the father, the HUSB of the
\* family the departing individual is a child of, whatever sex is recorded for
\* either of the two.
C20_ViaMaleByParentOfEdge ==
    pc = "returned" =>
        \A i \in 1..Len(paths) : \A k \in 1..Len(paths[i].steps) :
            LET step == paths[i].steps[k]
                from == Departed(paths[i], k)
            IN  /\ step.relation_type = CHILD =>
                       (step.via_male <=> indi[from].sex = "M")
                /\ step.relation_type = PARENT =>
                       (step.via_male <=> step.individual_id = fam[indi[from].famc].husb)

\* a path was returned that steps from an individual recorded as female to a
\* father without recorded sex, via-male, and another that steps to a mother
\* recorded as male, not via-male
C20_Witness ==
    /\ pc = "returned"
    /\ \E i \in 1..Len(paths) : \E k \in 1..Len(paths[i].steps) :
          LET step == paths[i].steps[k]
              from == Departed(paths[i], k)
          IN  /\ step.relation_type = PARENT
              /\ indi[from].sex = "F"
              /\ indi[step.individual_id].sex = "U"
              /\ step.via_male
    /\ \E i \in 1..Len(paths) : \E k \in 1..Len(paths[i].steps) :
          LET step == paths[i].steps[k]
          IN  /\ step.relation_type = PARENT
              /\ indi[step.individual_id].sex = "M"
              /\ ~step.via_male

\* the individuals that at most d parent steps lead to from r
RECURSIVE UpWithin(_, _)
UpWithin(r, d) ==
    IF d = 0
    THEN {r}
    ELSE LET B == UpWithin(r, d - 1)
         IN  B \cup {p \in DOMAIN indi : \E u \in B : IsParentOf(p, u)}

\* the least number of parent steps that lead from r to a
UpDistance(r, a) ==
    CHOOSE d \in 0..Len(indi) :
        /\ a \in UpWithin(r, d)
        /\ \A c \in 0..(d - 1) : a \notin UpWithin(r, c)

\* C21: find_pedigree from a resolvable root with bound generations >= 0
\* returns exactly the individuals whose least number of parent steps from
\* the root is at most generations - those at exactly that distance included,
\* their parents not found through them - and each is dequeued at that least
\* number of steps.
C21_ExactlyWithinBound ==
    (pc = "pdone" /\ Resolvable(start_id)) =>
        /\ {pedigree[k] : k \in 1..Len(pedigree)} = UpWithin(start_id, generations)
        /\ \A k \in 1..Len(pedigree) : placed[k] = UpDistance(start_id, pedigree[k])

\* in a sound store, the finished pedigree of a root one of whose parents is
\* also a parent of the other, so that two and one parent steps lead to that
\* one: both parents are at generation 1
C21_Witness ==
    /\ pc = "pdone"
    /\ Resolvable(start_id)
    /\ Sound
    /\ generations = 2
    /\ \E a, m \in DOMAIN indi :
          /\ a # m
          /\ IsParentOf(a, start_id)
          /\ IsParentOf(m, start_id)
          /\ IsParentOf(a, m)
          /\ \E k \in 1..Len(pedigree) : pedigree[k] = a /\ placed[k] = 1
          /\ \E k \in 1..Len(pedigree) : pedigree[k] = m /\ placed[k] = 1

\* the individuals a walk found at generation k, in the order it found them
FoundAt(pairs, k) ==
    LET at == SelectSeq(pairs, LAMBDA e : e.gen = k)
    IN  [j \in 1..Len(at) |-> at[j].ind]

\* the ancestor walk the ancestor-split variant runs from a parent of the
\* root; no walk for a parent that is not on record
ParentWalk(parent) ==
    IF parent = None THEN <<>>
    ELSE find_pedigree_with_generations(parent, generations - 1)

\* the offsets looked at: those of the map and every one a walk can reach
Offsets ==
    DOMAIN generations_map \cup (-(Len(indi) + 1))..(Len(indi) + 1)

\* the map holds exactly the non-empty lists that Band assigns to the offsets
MapIs(Band(_)) ==
    \A k \in Offsets :
        /\ k \in DOMAIN generations_map <=> Band(k) # <<>>
        /\ k \in DOMAIN generations_map => generations_map[k] = Band(k)

\* C22: in the ancestor-split variant the root is at offset 0; the hourglass
\* places the individuals the father's walk found at generation k at offset
\* k + 1 and those of the mother's walk at -(k + 1), the bowtie the father's
\* at -(k + 1) and the mother's at k + 1; a parent that is not on record
\* contributes nothing and raises nothing.
C22_AncestorSplitLayout ==
    (pc = "cdone" /\ builder \in {"Hourglass", "Bowtie"} /\ variant = "ancestor-split"
     /\ Resolvable(start_id)) =>
        LET fm == get_parents(start_id)
            father_side == IF builder = "Hourglass" THEN 1 ELSE -1
            Band(k) == IF k = 0 THEN <<start_id>>
                       ELSE IF k * father_side > 0
                       THEN FoundAt(ParentWalk(fm[1]), k * father_side - 1)
                       ELSE FoundAt(ParentWalk(fm[2]), -(k * father_side) - 1)
        IN  /\ raised = NoError
            /\ MapIs(Band)

\* an hourglass chart of a root without a recorded mother whose father has
\* recorded parents: offsets 0, 1 and 2 and none below 0
C22_Witness ==
    /\ Charted
    /\ builder = "Hourglass"
    /\ variant = "ancestor-split"
    /\ get_parents(start_id)[2] = None
    /\ {1, 2} \subseteq DOMAIN generations_map
    /\ \A k \in DOMAIN generations_map : k >= 0

\* the two walks the "descendants" variant runs from the root
RootAncestors == find_pedigree_with_generations(start_id, generations)
RootDescendants == find_descendants(start_id, generations)

DescendantsCharted ==
    /\ pc = "cdone"
    /\ builder \in {"Hourglass", "Bowtie"}
    /\ variant = "descendants"
    /\ Resolvable(start_id)

\* C23 as stated: in the "descendants" variant of both charts every ancestor
\* is at its walk generation, every descendant of generation k > 0 at -k, and
\* the root is alone at 0.
C23_AncestorsAboveInBothCharts ==
    DescendantsCharted =>
        LET Band(k) == IF k >= 0 THEN FoundAt(RootAncestors, k)
                       ELSE FoundAt(RootDescendants, -k)
        IN  /\ generations_map[0] = <<start_id>>
            /\ MapIs(Band)

\* C23 amended: the hourglass places an ancestor of walk generation k at k and
\* a descendant of generation k > 0 at -k; the bowtie places the ancestor at -k
\* and the descendant at k; in both the root is entered once, at 0.
C23_DescendantsLayout ==
    DescendantsCharted =>
        LET ancestor_side == IF builder = "Hourglass" THEN 1 ELSE -1
            Band(k) == IF k = 0 THEN FoundAt(RootAncestors, 0)
                       ELSE IF k * ancestor_side > 0
                       THEN FoundAt(RootAncestors, k * ancestor_side)
                       ELSE FoundAt(RootDescendants, -(k * ancestor_side))
        IN  /\ raised = NoError
            /\ generations_map[0] = <<start_id>>
            /\ MapIs(Band)

\* a bowtie chart of a root with a recorded parent and a recorded child: the
\* parent is at -1 and the child at 1
C23_Witness ==
    /\ Charted
    /\ builder = "Bowtie"
    /\ variant = "descendants"
    /\ {-1, 1} \subseteq DOMAIN generations_map
    /\ \E p \in DOMAIN indi : IsParentOf(p, start_id) /\ generations_map[-1][1] = p
    /\ \E c \in DOMAIN indi : IsParentOf(start_id, c) /\ generations_map[1][1] = c

\* generate_relationship returned a chart of the path it was given
RelationshipCharted ==
    /\ pc = "rdone"
    /\ builder = "Relationship"
    /\ raised = NoError

\* the parent of c on record beside p, None when there is none
OtherParent(p, c) ==
    LET cp == get_parents(c)
    IN  IF cp[1] = p THEN cp[2] ELSE cp[1]

\* some family record with a and b as HUSB and WIFE has a MARR line
MarriageOnRecord(a, b) ==
    \E f \in DOMAIN fam :
        /\ fam[f].marr
        /\ \/ fam[f].husb = a /\ fam[f].wife = b
           \/ fam[f].husb = b /\ fam[f].wife = a

\* C24: an individual p of the path other than its end, whose next individual
\* on the path is p's child, gets that child's other recorded parent as its
\* co-parent unless the co-parent is on the path; nobody else gets one, in
\* particular the path's end gets none; the co-parent is flagged married
\* exactly when a family record of the two carries a marriage event.
C24_CoParentFromNextStep ==
    RelationshipCharted =>
        LET all_individuals == AllIndividuals(shortest[1])
            on_path == {all_individuals[k] : k \in 1..Len(all_individuals)}
            expected == {<<all_individuals[i], OtherParent(all_individuals[i],
                                                           all_individuals[i + 1])>> :
                            i \in {j \in 1..(Len(all_individuals) - 1) :
                                      /\ IsParentOf(all_individuals[j], all_individuals[j + 1])
                                      /\ OtherParent(all_individuals[j], all_individuals[j + 1])
                                             \notin on_path \cup {None}}}
        IN  /\ {<<p, spouse_map[p].spouse>> : p \in DOMAIN spouse_map} = expected
            /\ shortest[1].end_id \notin DOMAIN spouse_map
            /\ \A p \in DOMAIN spouse_map :
                   spouse_map[p].is_married <=> MarriageOnRecord(p, spouse_map[p].spouse)

\* C30: the label is 'Siblings' only for a path of one toward-parent step
\* followed by one toward-child step, whose two ends share that parent; the
\* path down to a shared child and up to its other parent is not labelled so.
C30_SiblingsShareAParent ==
    (RelationshipCharted /\ description = "Siblings") =>
        LET steps == shortest[1].steps
        IN  /\ Len(steps) = 2
            /\ steps[1].relation_type = PARENT
            /\ steps[2].relation_type = CHILD
            /\ IsParentOf(steps[1].individual_id, shortest[1].start_id)
            /\ IsParentOf(steps[1].individual_id, shortest[1].end_id)

\* the individuals a queued path visits, the start included
QueuedRoute(entry) ==
    <<start_id>> \o [k \in 1..Len(entry.path) |-> entry.path[k].individual_id]

\* the queued path is a walk of the family graph from start to node
QueuedWalk(entry) ==
    LET route == QueuedRoute(entry)
    IN  /\ route[Len(route)] = entry.node
        /\ \A k \in 1..(Len(route) - 1) : Linked(route[k], route[k + 1])

\* C25: in every state of the find_relationship_paths loop the depth recorded
\* for a node is the length of a shortest walk from start to it (so it is the
\* depth of its first discovery and never changes), every queued entry has
\* the depth recorded for its node, and its path is a walk from start to the
\* node that visits no individual twice and does not step on end.
C25_SearchInvariant ==
    pc = "loop" =>
        /\ \A n \in DOMAIN indi :
               visited[n] # Unset =>
                   /\ Connected(start_id, n)
                   /\ visited[n] = Distance(start_id, n)
        /\ \A k \in 1..Len(queue) :
               LET entry == queue[k]
                   route == QueuedRoute(entry)
               IN  /\ Len(entry.path) = visited[entry.node]
                   /\ QueuedWalk(entry)
                   /\ \A i, j \in 1..Len(route) : route[i] = route[j] => i = j
                   /\ \A i \in 1..Len(route) : route[i] # end_id

\* a node waits in the queue twice, under two paths of the depth recorded for it
C25_Witness ==
    /\ pc = "loop"
    /\ \E j, k \in 1..Len(queue) :
           /\ j < k
           /\ queue[j].node = queue[k].node
           /\ queue[j].path # queue[k].path
           /\ Len(queue[j].path) = 2
           /\ Len(queue[k].path) = visited[queue[k].node]

\* C26: the list find_relationship_paths returns is in the order of
\* non-decreasing path length, so its first element is as short as any.
C26_ReturnedByLength ==
    pc = "returned" =>
        /\ \A j, k \in 1..Len(paths) :
               j < k => length(paths[j].steps) <= length(paths[k].steps)
        /\ \A k \in 1..Len(paths) : length(paths[1].steps) <= length(paths[k].steps)

\* a returned list with paths of two lengths, the shorter one first
C26_Witness ==
    /\ pc = "returned"
    /\ Len(paths) >= 2
    /\ length(paths[1].steps) < length(paths[Len(paths)].steps)

\* C27: the pedigree chart has the edge parent -> child for every two
\* individuals it includes of whom one is the recorded father or mother of
\* the other, the root and its included parents among them.
C27_PedigreeEdgesComplete ==
    (pc = "cdone" /\ builder = "Pedigree" /\ raised = NoError) =>
        LET included == VisitedIndividuals(generations_map)
        IN  \A parent, child \in included :
                parent \in {get_parents(child)[1], get_parents(child)[2]} =>
                    \E k \in 1..Len(lines) : lines[k] = EdgeLine(parent, child)

\* the places of the map that hold individual i: (offset, position in the band)
PlacesOf(i) ==
    UNION {{<<k, j>> : j \in {n \in 1..Len(generations_map[k]) : generations_map[k][n] = i}} :
           k \in DOMAIN generations_map}

\* C28: in the map of an hourglass or bowtie chart over a family graph in
\* which nobody is their own ancestor, no individual is in two bands or twice
\* in one, in either variant, a common ancestor of the father and the mother
\* included.
C28_OneBandEach ==
    (pc = "cdone" /\ builder \in {"Hourglass", "Bowtie"} /\ raised = NoError /\ Sound) =>
        \A i \in DOMAIN indi : Cardinality(PlacesOf(i)) <= 1

\* C29: whatever the chart and the variant, every offset of the map is at most
\* generations away from 0; with generations = 0 only offset 0 is there.
C29_OffsetsWithinGenerations ==
    (pc = "cdone" /\ raised = NoError) =>
        \A k \in DOMAIN generations_map : k <= generations /\ -k <= generations

====
